---- MODULE Spec2Model ----
(***************************************************************************)
(* A model of the rust-wurfl facade: the Wurfl engine wrapper              *)
(* (src/src/wurfl.rs) and the Device wrapper (src/src/device.rs).          *)
(*                                                                         *)
(* The native engine behind the wurfl_* functions is not part of the       *)
(* repository.  Where a native call may succeed or fail, the model draws   *)
(* the outcome nondeterministically; where the meaning of a native call    *)
(* decides a property (matching, caching) it is modelled from spec.md and  *)
(* said so at the definition.                                              *)
(*                                                                         *)
(* Eight specifications share the variables:                               *)
(*   SpecNew    Wurfl::new, one call from its arguments to its result      *)
(*   SpecHdr    the header lookups on a constructed engine                 *)
(*   Spec       the lifetime of one engine and of the devices it issued    *)
(*   SpecCache  lookups against the engine's matching and lookup cache     *)
(*   SpecDb     the device id operations on a loaded database              *)
(*   SpecDev    one accessor call on a Device                              *)
(*   SpecUpd    header lookups while the updater replaces the database     *)
(*   SpecErr    failing calls of several threads on one shared engine      *)
(***************************************************************************)
EXTENDS Integers, Sequences, FiniteSets, TLC

VARIABLES
    newArgs,      \* arguments of the Wurfl::new call, "none" before it
    newRes,       \* outcome of the Wurfl::new call, "none" before it
    wurfl,        \* the Wurfl struct: [important_header_cstring_names]
    hdrCall,      \* record of the last header lookup, "none" before it
    owned,        \* the Wurfl value exists (constructed Ok, not yet dropped)
    engine,       \* state of the native wurfl_handle: "live" | "destroyed"
    destroys,     \* number of wurfl_destroy calls made on the handle
    devices,      \* Device values: id -> "none" | "live" | "dropped"
    lastCall,     \* the last native call and the engine state it ran on
    cachePolicy,  \* the engine's lookup cache policy and capacity
    cache,        \* the lookup cache, most recently used entry last
    dbCatchall,   \* the loaded database holds a catch-all device
    creation,     \* how the engine of SpecCache was created
    prevLookup,   \* the lookup before the last one
    lastLookup,   \* the last lookup: key, outcome, device id, raw match code
                  \* (prevLookup and lastLookup are consecutive lookups)
    cacheBefore,  \* the lookup cache as the last lookup found it
    database,     \* the device ids the engine loaded, in enumeration order
    idCall,       \* the last device id operation and its outcome
    profile,      \* the engine's data of one device: capabilities, match code
    devCall,      \* the last Device accessor call and its outcome
    dbVersion,    \* version of the database the engine holds now
    hdrLoaded,    \* version of the database the Wurfl's header map was read from
    updater,      \* the engine's periodic updater: "stopped" | "running"
    flight,       \* the header lookup in flight and the versions it consulted
    lastError,    \* the engine's last error message, one per wurfl_handle
    threads       \* per thread: the fallible call it is in and what it returned

vars == << newArgs, newRes, wurfl, hdrCall, owned, engine, destroys, devices,
           lastCall, cachePolicy, cache, dbCatchall, creation, prevLookup,
           lastLookup, cacheBefore, database, idCall, profile, devCall,
           dbVersion, hdrLoaded, updater, flight, lastError, threads >>

newVars   == << newArgs, newRes >>
hdrVars   == << hdrCall >>
lifeVars  == << owned, engine, destroys, devices, lastCall >>
cacheVars == << cachePolicy, cache, dbCatchall, creation, prevLookup, lastLookup,
               cacheBefore >>
dbVars    == << database, idCall >>
devVars   == << profile, devCall >>
updVars   == << dbVersion, hdrLoaded, updater, flight >>
errVars   == << lastError, threads >>

(***************************************************************************)
(* Bounds of the model.                                                    *)
(***************************************************************************)
MaxPatches == 2
MaxFilters == 2
MaxHeaders == 2
MaxDevices == 2
MaxCacheCap == 2

SeqsUpTo(S, n) == UNION { [1..k -> S] : k \in 0..n }

(***************************************************************************)
(* Strings.  A Rust &str is modelled by an identity and by whether it      *)
(* holds a NUL byte, which is all CString::new looks at.  A header value   *)
(* is a byte string (V: AsRef<[u8]>): it may also fail to be UTF-8.        *)
(***************************************************************************)
Str(i, n) == [id |-> i, nul |-> n]
Bytes(i, u, n) == [id |-> i, utf8 |-> u, nul |-> n]

\* CString::new(s): an error when s holds a NUL byte.
CString_new_ok(s) == ~s.nul

\* wurfl.rs:19
WURFL_OK == 0

\* Option<T>: the payload of None is a placeholder that is never read.
Some(x) == [some |-> TRUE, v |-> x]
NoneSeq == [some |-> FALSE, v |-> << >>]
NoneStr == [some |-> FALSE, v |-> Str("", FALSE)]

(***************************************************************************)
(* Header names.  String::to_lowercase on the names of the model.          *)
(***************************************************************************)
to_lowercase(n) ==
    CASE n \in {"User-Agent", "user-agent", "USER-AGENT"} -> "user-agent"
      [] n \in {"X-Dev", "x-dev"} -> "x-dev"
      [] n = "Accept" -> "accept"
      [] OTHER -> n

\* The lists of important header names the engine may enumerate after load.
EngineHeaderLists ==
    { << >>, <<"User-Agent">>, <<"User-Agent", "X-Dev">>, <<"X-Dev", "User-Agent">>,
      <<"User-Agent", "user-agent">>, <<"user-agent", "User-Agent">> }

\* HashMap::insert
MapInsert(m, k, v) == [x \in (DOMAIN m) \cup {k} |-> IF x = k THEN v ELSE m[x]]

EmptyMap == [x \in {} |-> x]

(***************************************************************************)
(* Wurfl::new (wurfl.rs:104-240).                                          *)
(*                                                                         *)
(* The run is a record st: the native calls issued so far (calls), the     *)
(* handle wurfl_create returned, the outcome (out: "run" while the         *)
(* constructor is still going, then "Ok" or "Err"), the message of the     *)
(* error, the engine's last error message, and the header vector and map   *)
(* built by the enumeration.  Each step leaves a finished run alone: that  *)
(* is the early return.                                                    *)
(*                                                                         *)
(* The oracle o says which native step fails: o.fail names the step and    *)
(* o.at the patch or filter (by position) at which it fails; o.names is    *)
(* the list of header names the engine enumerates.  The engine's error     *)
(* messages and header names are taken to be valid UTF-8 C strings.        *)
(***************************************************************************)
NativeCall(f, a, p) == [fn |-> f, arg |-> a, opt |-> p]
NoArg == Str("", FALSE)

WrapperMsg(t) == [by |-> "wrapper", text |-> t]
EngineMsg(f) == [by |-> "engine", text |-> f]
NoMsg == [by |-> "", text |-> ""]

NotRun ==
    [calls |-> << >>, handle |-> "null", out |-> "none", msg |-> NoMsg,
     lastErr |-> NoMsg, names |-> << >>, hmap |-> EmptyMap]

\* One native call of the constructor: appended to the calls, and when it
\* fails the engine keeps its message as the last error.
Native(st, f, a, p, failed) ==
    [st EXCEPT !.calls = Append(@, NativeCall(f, a, p)),
               !.lastErr = IF failed THEN EngineMsg(f) ELSE @]

\* What the native call returned.
Ret(failed) == IF failed THEN 1 ELSE WURFL_OK

\* wurfl.rs:243-247: the last error message held by the engine.
get_error_message(st) == st.lastErr

ReturnErr(st, m) == [st EXCEPT !.out = "Err", !.msg = m]

\* wurfl.rs:106-109
new_create(o) ==
    LET st == [NotRun EXCEPT !.out = "run",
                             !.calls = << NativeCall("wurfl_create", NoArg, "") >>,
                             !.handle = IF o.fail = "create" THEN "null" ELSE "live"]
    IN  IF st.handle = "null"
        THEN ReturnErr(st, WrapperMsg("Wurfl handle is NULL"))
        ELSE st

\* wurfl.rs:111-122
new_set_root(st, wurfl_xml, o) ==
    IF st.out /= "run" THEN st
    ELSE IF ~CString_new_ok(wurfl_xml)
    THEN ReturnErr(st, WrapperMsg("Error creating CString from wurfl xml file path"))
    ELSE LET failed == (o.fail = "set_root")
             s1 == Native(st, "wurfl_set_root", wurfl_xml, "", failed)
         IN  IF Ret(failed) /= WURFL_OK
             THEN ReturnErr(s1, get_error_message(s1))
             ELSE s1

\* wurfl.rs:70-75
to_cache_provider(cp) ==
    CASE cp = "NoCache" -> "WURFL_CACHE_PROVIDER_NONE"
      [] cp = "LRU" -> "WURFL_CACHE_PROVIDER_LRU"

\* A constructor that never hands the cache provider to the engine.
new_set_cache_skipped(st, cache_provider, cache_extra_config, o) == st

\* wurfl.rs:126-146: the provider is handed to the engine only for LRU with
\* a cache_extra_config; every other selection issues no native call.
new_set_cache(st, cache_provider, cache_extra_config, o) ==
    IF st.out /= "run" THEN st
    ELSE IF cache_provider = "LRU" /\ cache_extra_config.some
    THEN IF ~CString_new_ok(cache_extra_config.v)
         THEN ReturnErr(st, WrapperMsg("Invalid cache_extra_config passed in create WURFL engine. Possibly a nul character in the input string"))
         ELSE LET failed == (o.fail = "set_cache")
                  s1 == Native(st, "wurfl_set_cache_provider", cache_extra_config.v,
                               to_cache_provider(cache_provider), failed)
              IN  IF Ret(failed) /= WURFL_OK
                  THEN ReturnErr(s1, get_error_message(s1))
                  ELSE s1
    ELSE st

\* wurfl.rs:151-167: the loop over the patches, from position i on.
RECURSIVE new_patch_loop(_, _, _, _)
new_patch_loop(st, u_patches, i, o) ==
    IF st.out /= "run" \/ i > Len(u_patches) THEN st
    ELSE IF ~CString_new_ok(u_patches[i])
    THEN ReturnErr(st, WrapperMsg("Invalid patch path passed"))
    ELSE LET failed == (o.fail = "add_patch" /\ o.at = i)
             s1 == Native(st, "wurfl_add_patch", u_patches[i], "", failed)
         IN  IF Ret(failed) /= WURFL_OK
             THEN ReturnErr(s1, get_error_message(s1))
             ELSE new_patch_loop(s1, u_patches, i + 1, o)

\* wurfl.rs:149-168
new_patches(st, patches, o) ==
    IF st.out = "run" /\ patches.some THEN new_patch_loop(st, patches.v, 1, o) ELSE st

\* wurfl.rs:174-190: the loop over the capability filter, from position i on.
RECURSIVE new_filter_loop(_, _, _, _)
new_filter_loop(st, u_filter, i, o) ==
    IF st.out /= "run" \/ i > Len(u_filter) THEN st
    ELSE IF ~CString_new_ok(u_filter[i])
    THEN ReturnErr(st, WrapperMsg("Invalid capability filter passed"))
    ELSE LET failed == (o.fail = "add_cap" /\ o.at = i)
             s1 == Native(st, "wurfl_add_requested_capability", u_filter[i], "", failed)
         IN  IF Ret(failed) /= WURFL_OK
             THEN ReturnErr(s1, get_error_message(s1))
             ELSE new_filter_loop(s1, u_filter, i + 1, o)

\* wurfl.rs:172-191
new_cap_filter(st, cap_filter, o) ==
    IF st.out = "run" /\ cap_filter.some THEN new_filter_loop(st, cap_filter.v, 1, o) ELSE st

\* A constructor that ignores the result of wurfl_load and goes on.
new_load_unchecked(st, o) ==
    IF st.out /= "run" THEN st
    ELSE Native(st, "wurfl_load", NoArg, "", o.fail = "load")

\* wurfl.rs:193-198
new_load(st, o) ==
    IF st.out /= "run" THEN st
    ELSE LET failed == (o.fail = "load")
             s1 == Native(st, "wurfl_load", NoArg, "", failed)
         IN  IF Ret(failed) /= WURFL_OK
             THEN ReturnErr(s1, get_error_message(s1))
             ELSE s1

\* wurfl.rs:211-229: one turn of the enumeration loop per header name; the
\* name is pushed to the vector and inserted under its lowercase form.  The
\* name was read from a C string, so it holds no NUL byte and the error arm
\* of CString::new (wurfl.rs:220-222) is never taken.
RECURSIVE new_header_loop(_, _, _)
new_header_loop(st, engineNames, i) ==
    IF i > Len(engineNames) THEN st
    ELSE LET str_headerName == engineNames[i]
             s1 == [st EXCEPT !.names = Append(@, str_headerName),
                              !.hmap = MapInsert(@, to_lowercase(str_headerName),
                                                 str_headerName)]
         IN  new_header_loop(s1, engineNames, i + 1)

\* wurfl.rs:200-231
new_important_headers(st, o) ==
    IF st.out /= "run" THEN st
    ELSE LET failed == (o.fail = "enum")
             s1 == Native(st, "wurfl_get_important_header_enumerator", NoArg, "", failed)
         IN  IF failed
             THEN ReturnErr(s1, get_error_message(s1))
             ELSE LET s2 == new_header_loop(s1, o.names, 1)
                  IN  [s2 EXCEPT !.calls =
                          Append(@, NativeCall("wurfl_important_header_enumerator_destroy",
                                               NoArg, ""))]

\* wurfl.rs:233-239
new_finish(st) == IF st.out = "run" THEN [st EXCEPT !.out = "Ok"] ELSE st

\* A constructor that loads the database before it registers the capability
\* filter.
Wurfl_new_load_first(wurfl_xml, patches, cap_filter, cache_provider, cache_extra_config, o) ==
    new_finish(
      new_important_headers(
        new_cap_filter(
          new_load(
            new_patches(
              new_set_cache(
                new_set_root(new_create(o), wurfl_xml, o),
                cache_provider, cache_extra_config, o),
              patches, o),
            o),
          cap_filter, o),
        o))

\* wurfl.rs:104-240
Wurfl_new(wurfl_xml, patches, cap_filter, cache_provider, cache_extra_config, o) ==
    new_finish(
      new_important_headers(
        new_load(
          new_cap_filter(
            new_patches(
              new_set_cache(
                new_set_root(new_create(o), wurfl_xml, o),
                cache_provider, cache_extra_config, o),
              patches, o),
            cap_filter, o),
          o),
        o))

(***************************************************************************)
(* The header lookups (wurfl.rs:333-444).                                  *)
(*                                                                         *)
(* A call is a record hc: whether the important-header object was created, *)
(* how many times it was destroyed, the wurfl_important_header_set calls   *)
(* made (sets: engine header name, value, and the position of the request  *)
(* entry it came from), whether the native lookup was performed (looked),  *)
(* and the outcome.  The headers argument is the sequence of (name, value) *)
(* pairs in the order the caller's iterator yields them.                   *)
(*                                                                         *)
(* bindings is the content of the important-header object as the engine    *)
(* sees it: wurfl_important_header_set is taken to set the value of the    *)
(* named header, a later call for the same name replacing the earlier one. *)
(***************************************************************************)
\* std::str::from_utf8(value.as_ref()).is_ok()
from_utf8_ok(value) == value.utf8

SetCall(n, v, i) == [name |-> n, value |-> v, from |-> i]

\* wurfl.rs:364-366
wurfl_important_header_set(hc, c_header_name, value, i) ==
    [hc EXCEPT !.sets = Append(@, SetCall(c_header_name, value, i)),
               !.bindings = MapInsert(@, c_header_name, value)]

\* A selection that treats a value that is not UTF-8 like one that cannot
\* be made a C string: the object is destroyed and the call returns Err.
select_header_strict(hc, ih_names, key, value, i) ==
    LET low_key == to_lowercase(key)
    IN  IF low_key \in DOMAIN ih_names
        THEN IF from_utf8_ok(value) /\ CString_new_ok(value)
             THEN wurfl_important_header_set(hc, ih_names[low_key], value, i)
             ELSE [hc EXCEPT !.destroyed = @ + 1, !.out = "Err",
                             !.msg = WrapperMsg("Unable to convert header value to C string")]
        ELSE hc

\* wurfl.rs:344-368 (and 407-430): the body of the loop for one entry.
select_header(hc, ih_names, key, value, i) ==
    LET low_key == to_lowercase(key)
    IN  IF low_key \in DOMAIN ih_names
        THEN LET c_header_name == ih_names[low_key]
             IN  IF from_utf8_ok(value)
                 THEN IF ~CString_new_ok(value)
                      THEN [hc EXCEPT !.destroyed = @ + 1, !.out = "Err",
                                      !.msg = WrapperMsg("Unable to convert header value to C string")]
                      ELSE wurfl_important_header_set(hc, c_header_name, value, i)
                 ELSE hc
        ELSE hc

\* wurfl.rs:343-369 (and 406-431): the loop, from entry i on; it ends at the
\* first entry that makes the call return.
RECURSIVE select_loop(_, _, _, _)
select_loop(hc, ih_names, headers, i) ==
    IF hc.out /= "run" \/ i > Len(headers) THEN hc
    ELSE select_loop(select_header(hc, ih_names, headers[i][1], headers[i][2], i),
                     ih_names, headers, i + 1)

\* wurfl.rs:336-340 (and 399-403)
header_create(hc) ==
    IF hc.out /= "run" THEN hc
    ELSE IF hc.o.create = "null"
    THEN [hc EXCEPT !.out = "Err", !.msg = EngineMsg("wurfl_important_header_create")]
    ELSE [hc EXCEPT !.created = TRUE]

\* wurfl.rs:371-381 (and 433-443): the native lookup with the header object;
\* the object is destroyed after a device was returned.
header_lookup(hc, f) ==
    IF hc.out /= "run" THEN hc
    ELSE IF hc.o.lookup = "null"
    THEN [hc EXCEPT !.looked = TRUE, !.out = "Err", !.msg = EngineMsg(f)]
    ELSE [hc EXCEPT !.looked = TRUE, !.out = "Ok", !.destroyed = @ + 1]

StartHdrCall(f, device_id, headers, o) ==
    [op |-> f, device_id |-> device_id, headers |-> headers, o |-> o,
     created |-> FALSE, destroyed |-> 0, sets |-> << >>, bindings |-> EmptyMap,
     looked |-> FALSE, out |-> "run", msg |-> NoMsg]

\* wurfl.rs:333-382
lookup_with_headers(w, headers, o) ==
    header_lookup(
      select_loop(
        header_create(StartHdrCall("lookup_with_headers", NoArg, headers, o)),
        w.important_header_cstring_names, headers, 1),
      "wurfl_lookup_with_important_header")

\* wurfl.rs:386-444
lookup_device_id_with_headers(w, device_id, headers, o) ==
    LET hc == StartHdrCall("lookup_device_id_with_headers", device_id, headers, o)
    IN  IF ~CString_new_ok(device_id)
        THEN [hc EXCEPT !.out = "Err",
                        !.msg = WrapperMsg("Unable to convert device id into a CString")]
        ELSE header_lookup(
               select_loop(header_create(hc), w.important_header_cstring_names, headers, 1),
               "wurfl_get_device_with_important_header")

(***************************************************************************)
(* Device ids (wurfl.rs:447-496, device.rs:12-15).                         *)
(*                                                                         *)
(* A string held by the engine is a C string: bytes up to the first NUL,   *)
(* modelled by an identity and by whether the bytes are valid UTF-8.  A    *)
(* Rust &str is always valid UTF-8 and may hold a NUL byte (Str).          *)
(*                                                                         *)
(* The database is the sequence of the device ids the engine loaded, in    *)
(* the order its enumeration yields them.  wurfl_get_device is native; it  *)
(* is modelled from spec.md 4.3 (get_by_id, a direct database access).     *)
(***************************************************************************)
CStr(i, u) == [id |-> i, utf8 |-> u]

\* CString::new(s).as_ptr(), for an s without NUL byte: the bytes of s.
as_ptr(s) == CStr(s.id, TRUE)

Returned(x) == [out |-> "Ok", v |-> x]
Panicked == [out |-> "Panic", v |-> ""]
NoGot == [out |-> "none", v |-> ""]

\* wurfl.rs:57-60: c_str.to_str().unwrap() panics on bytes that are not UTF-8.
to_str(c_str) == IF c_str.utf8 THEN Returned(c_str.id) ELSE Panicked

\* spec.md 4.3: the positions of the device with the given id.
wurfl_get_device(db, c_dev_id) == { i \in 1..Len(db) : db[i] = c_dev_id }

IdCall(f, a, out, dev, ids) ==
    [op |-> f, arg |-> a, out |-> out, dev |-> dev, got |-> NoGot, ids |-> ids]

\* wurfl.rs:447-465
lookup_device_id(db, device_id) ==
    IF ~CString_new_ok(device_id)
    THEN IdCall("lookup_device_id", device_id, "Err", CStr("", TRUE), << >>)
    ELSE LET d_handle == wurfl_get_device(db, as_ptr(device_id))
         IN  IF d_handle = {}
             THEN IdCall("lookup_device_id", device_id, "Err", CStr("", TRUE), << >>)
             ELSE IdCall("lookup_device_id", device_id, "Ok",
                         db[CHOOSE i \in d_handle : TRUE], << >>)

\* device.rs:12-15
get_device_id(dev) == to_str(dev)

\* wurfl.rs:476-490: the loop over the enumeration, from position i on; an
\* id that is not UTF-8 becomes "" and an empty id is not pushed.
RECURSIVE ids_loop(_, _, _)
ids_loop(db, i, dev_ids) ==
    IF i > Len(db) THEN dev_ids
    ELSE LET id == IF db[i].utf8 THEN db[i].id ELSE ""
         IN  ids_loop(db, i + 1,
                      IF id /= "" THEN Append(dev_ids, Str(id, FALSE)) ELSE dev_ids)

\* wurfl.rs:468-496: an empty vector when the enumeration cannot be created.
get_all_device_ids(db, enumNull) ==
    IF enumNull THEN << >> ELSE ids_loop(db, 1, << >>)

(***************************************************************************)
(* The capability resolvers of Device (device.rs:51-129).                  *)
(*                                                                         *)
(* The engine's data of a device is a record: caps and vcaps map the names *)
(* defined for the device to the C string the engine returns for them, and *)
(* mt is the raw match code.  A name that is not in the map is undefined:  *)
(* the native accessor returns a null pointer (spec.md 4.5).               *)
(*                                                                         *)
(* A single accessor returns None, Some(value), or panics; a batch         *)
(* accessor returns Ok(map) or Err(message).                               *)
(***************************************************************************)
NullPtr == [null |-> TRUE, v |-> CStr("", TRUE)]
Ptr(c_str) == [null |-> FALSE, v |-> c_str]

\* wurfl_device_get_capability and wurfl_device_get_virtual_capability.
wurfl_device_get(table, c_name) ==
    IF c_name.id \in DOMAIN table THEN Ptr(table[c_name.id]) ELSE NullPtr

OptionNone == [out |-> "None", v |-> ""]
OptionSome(r) == IF r.out = "Ok" THEN [out |-> "Some", v |-> r.v] ELSE r

\* device.rs:51-61
get_capability(table, capability_name) ==
    IF ~CString_new_ok(capability_name) THEN OptionNone
    ELSE LET cap_value == wurfl_device_get(table, as_ptr(capability_name))
         IN  IF cap_value.null THEN OptionNone ELSE OptionSome(to_str(cap_value.v))

\* device.rs:64-74
get_virtual_capability(table, virtual_capability_name) ==
    IF ~CString_new_ok(virtual_capability_name) THEN OptionNone
    ELSE LET vcap_value == wurfl_device_get(table, as_ptr(virtual_capability_name))
         IN  IF vcap_value.null THEN OptionNone ELSE OptionSome(to_str(vcap_value.v))

BatchOk(caps) == [out |-> "Ok", map |-> caps, msg |-> NoMsg]
BatchErr(m) == [out |-> "Err", map |-> EmptyMap, msg |-> m]

\* A loop that takes a name the device does not define for an error.
RECURSIVE caps_loop_strict(_, _, _, _, _)
caps_loop_strict(table, cap_names, i, caps, what) ==
    IF i > Len(cap_names) THEN BatchOk(caps)
    ELSE LET cap_name == cap_names[i]
         IN  IF ~CString_new_ok(cap_name)
             THEN BatchErr(WrapperMsg("Unable to convert into a CString " \o what \o " name"))
             ELSE LET cap_ptr == wurfl_device_get(table, as_ptr(cap_name))
                  IN  IF cap_ptr.null
                      THEN BatchErr(WrapperMsg(what \o " is undefined"))
                      ELSE IF ~cap_ptr.v.utf8
                      THEN BatchErr(WrapperMsg(what \o " value is an invalid UTF-8 string"))
                      ELSE caps_loop_strict(table, cap_names, i + 1,
                                            MapInsert(caps, cap_name.id, cap_ptr.v.id), what)

\* device.rs:79-100 (and 107-127): the loop over the names, from position i
\* on, with the map built so far.
RECURSIVE caps_loop(_, _, _, _, _)
caps_loop(table, cap_names, i, caps, what) ==
    IF i > Len(cap_names) THEN BatchOk(caps)
    ELSE LET cap_name == cap_names[i]
         IN  IF ~CString_new_ok(cap_name)
             THEN BatchErr(WrapperMsg("Unable to convert into a CString " \o what \o " name"))
             ELSE LET cap_ptr == wurfl_device_get(table, as_ptr(cap_name))
                  IN  IF cap_ptr.null
                      THEN caps_loop(table, cap_names, i + 1, caps, what)
                      ELSE IF ~cap_ptr.v.utf8
                      THEN BatchErr(WrapperMsg(what \o " value is an invalid UTF-8 string"))
                      ELSE caps_loop(table, cap_names, i + 1,
                                     MapInsert(caps, cap_name.id, cap_ptr.v.id), what)

\* device.rs:77-102
get_capabilities(table, cap_names) == caps_loop(table, cap_names, 1, EmptyMap, "capability")

\* device.rs:105-129
get_virtual_capabilities(table, vcap_names) ==
    caps_loop(table, vcap_names, 1, EmptyMap, "virtual capability")

(***************************************************************************)
(* Idle values: what a group of variables holds in a specification that    *)
(* does not exercise it.                                                   *)
(***************************************************************************)
NoArgs ==
    [called |-> FALSE, wurfl_xml |-> NoArg, patches |-> NoneSeq, cap_filter |-> NoneSeq,
     cache_provider |-> "NoCache", cache_extra_config |-> NoneStr,
     o |-> [fail |-> "none", at |-> 1, names |-> << >>]]

NoWurfl ==
    [valid |-> FALSE, important_header_names |-> << >>,
     important_header_cstring_names |-> EmptyMap]

NoHdrCall ==
    [op |-> "none", device_id |-> NoArg, headers |-> << >>,
     o |-> [create |-> "ok", lookup |-> "device"],
     created |-> FALSE, destroyed |-> 0, sets |-> << >>, bindings |-> EmptyMap,
     looked |-> FALSE, out |-> "none", msg |-> NoMsg]

NoNativeCall == [fn |-> "none", on |-> "none", engineWas |-> "live", dev |-> 0]

NoLookup == [op |-> "none", key |-> 0 - 1, out |-> "none", id |-> "", code |-> 0 - 1]

IdleNew == newArgs = NoArgs /\ newRes = NotRun

IdleHdr == hdrCall = NoHdrCall

IdleLife ==
    /\ owned = FALSE
    /\ engine = "live"
    /\ destroys = 0
    /\ devices = [d \in 1..MaxDevices |-> "none"]
    /\ lastCall = NoNativeCall

IdleCache ==
    /\ cachePolicy = [kind |-> "none", cap |-> 0]
    /\ cache = << >>
    /\ dbCatchall = TRUE
    /\ creation = [cache_provider |-> "NoCache", cache_extra_config |-> NoneStr,
                   engineDefault |-> "none"]
    /\ prevLookup = NoLookup
    /\ lastLookup = NoLookup
    /\ cacheBefore = << >>

NoIdCall ==
    [op |-> "none", arg |-> NoArg, out |-> "none", dev |-> CStr("", TRUE),
     got |-> NoGot, ids |-> << >>]

IdleDb == database = << >> /\ idCall = NoIdCall

\* A call of a Device accessor, before its outcome is filled in.
DevCall(f, names) ==
    [op |-> f, names |-> names, out |-> "none", v |-> "", map |-> EmptyMap,
     msg |-> NoMsg, raw |-> 0 - 1]

NoDevCall == DevCall("none", << >>)

IdleDev ==
    /\ profile = [caps |-> EmptyMap, vcaps |-> EmptyMap, mt |-> 0]
    /\ devCall = NoDevCall

NoFlight == [pc |-> "idle", hdrVersion |-> 0, dbVersion |-> 0]

IdleUpd ==
    /\ dbVersion = 1
    /\ hdrLoaded = 1
    /\ updater = "stopped"
    /\ flight = NoFlight

MaxThreads == 2
Threads == 1..MaxThreads

\* The result a thread holds: nothing yet, Ok(..) or Err(WurflError { msg }).
NoResult == [kind |-> "none", msg |-> NoMsg]
OkResult == [kind |-> "Ok", msg |-> NoMsg]
ErrResult(m) == [kind |-> "Err", msg |-> m]

\* A thread outside any call on the engine.
NoErrCall == [pc |-> "idle", fn |-> "none", arg |-> "", own |-> NoMsg, ret |-> NoResult]

IdleErr ==
    /\ lastError = NoMsg
    /\ threads = [t \in Threads |-> NoErrCall]

(***************************************************************************)
(* SpecNew: one call of Wurfl::new, over every argument list and every     *)
(* outcome of the native calls.                                            *)
(***************************************************************************)
PathStrs == { Str("wurfl.zip", FALSE), Str("wurfl.zip", TRUE) }
PatchStrs == { Str("p1", FALSE), Str("p2", FALSE), Str("p3", TRUE) }
FilterStrs == { Str("c1", FALSE), Str("c2", FALSE), Str("c3", TRUE) }
CacheConfigs == { NoneStr, Some(Str("100000", FALSE)), Some(Str("100000", TRUE)) }
CacheProviders == { "NoCache", "LRU" }

OptSeqs(S, n) == { NoneSeq } \cup { Some(q) : q \in SeqsUpTo(S, n) }

\* The outcomes of the native calls of one construction.
Oracles ==
    { [fail |-> f, at |-> 1, names |-> << >>] :
          f \in {"create", "set_root", "set_cache", "load", "enum"} }
    \cup { [fail |-> "add_patch", at |-> i, names |-> << >>] : i \in 1..MaxPatches }
    \cup { [fail |-> "add_cap", at |-> i, names |-> << >>] : i \in 1..MaxFilters }
    \cup { [fail |-> "none", at |-> 1, names |-> n] : n \in EngineHeaderLists }

\* wurfl.rs:233-237: the struct built from a finished construction.
WurflOf(res) ==
    IF res.out = "Ok"
    THEN [valid |-> TRUE, important_header_names |-> res.names,
          important_header_cstring_names |-> res.hmap]
    ELSE NoWurfl

InitNew ==
    /\ IdleNew
    /\ IdleErr
    /\ wurfl = NoWurfl
    /\ IdleHdr
    /\ IdleLife
    /\ IdleCache
    /\ IdleDb
    /\ IdleDev
    /\ IdleUpd

\* wurfl.rs:104-240
New ==
    /\ ~newArgs.called
    /\ \E wurfl_xml \in PathStrs, patches \in OptSeqs(PatchStrs, MaxPatches),
          cap_filter \in OptSeqs(FilterStrs, MaxFilters),
          cache_provider \in CacheProviders, cache_extra_config \in CacheConfigs,
          o \in Oracles :
            /\ newArgs' = [called |-> TRUE, wurfl_xml |-> wurfl_xml, patches |-> patches,
                           cap_filter |-> cap_filter, cache_provider |-> cache_provider,
                           cache_extra_config |-> cache_extra_config, o |-> o]
            /\ newRes' = Wurfl_new(wurfl_xml, patches, cap_filter, cache_provider,
                                   cache_extra_config, o)
            /\ wurfl' = WurflOf(newRes')
    /\ UNCHANGED << errVars, dbVars, devVars, updVars, hdrVars, lifeVars, cacheVars >>

NextNew == New

SpecNew == InitNew /\ [][NextNew]_vars

(***************************************************************************)
(* SpecHdr: one header lookup on a constructed engine, over every list of  *)
(* important headers the engine may have enumerated, every request and     *)
(* every outcome of the native calls.                                      *)
(***************************************************************************)
RequestNames == {"USER-AGENT", "user-agent", "X-Dev", "Accept"}

\* Header values: two texts, bytes that are not UTF-8, and a text with NUL.
HeaderValues ==
    { Bytes("a", TRUE, FALSE), Bytes("b", TRUE, FALSE),
      Bytes("x", FALSE, FALSE), Bytes("z", TRUE, TRUE) }

Requests == SeqsUpTo(RequestNames \X HeaderValues, MaxHeaders)

DeviceIds == { Str("generic", FALSE), Str("generic", TRUE) }

HdrOracles ==
    { [create |-> "null", lookup |-> "null"],
      [create |-> "ok", lookup |-> "null"],
      [create |-> "ok", lookup |-> "device"] }

\* The engines a successful construction produces.
BuiltWurfls ==
    { WurflOf(Wurfl_new(Str("wurfl.zip", FALSE), NoneSeq, NoneSeq, "NoCache", NoneStr,
                        [fail |-> "none", at |-> 1, names |-> n])) :
          n \in EngineHeaderLists }

InitHdr ==
    /\ IdleNew
    /\ IdleErr
    /\ wurfl \in BuiltWurfls
    /\ IdleHdr
    /\ IdleLife
    /\ IdleCache
    /\ IdleDb
    /\ IdleDev
    /\ IdleUpd

\* wurfl.rs:333-382
LookupWithHeaders ==
    /\ wurfl.valid
    /\ hdrCall.op = "none"
    /\ \E headers \in Requests, o \in HdrOracles :
           hdrCall' = lookup_with_headers(wurfl, headers, o)
    /\ UNCHANGED << errVars, dbVars, devVars, updVars, newVars, wurfl, lifeVars, cacheVars >>

\* wurfl.rs:386-444
LookupDeviceIdWithHeaders ==
    /\ wurfl.valid
    /\ hdrCall.op = "none"
    /\ \E device_id \in DeviceIds, headers \in Requests, o \in HdrOracles :
           hdrCall' = lookup_device_id_with_headers(wurfl, device_id, headers, o)
    /\ UNCHANGED << errVars, dbVars, devVars, updVars, newVars, wurfl, lifeVars, cacheVars >>

NextHdr == LookupWithHeaders \/ LookupDeviceIdWithHeaders

SpecHdr == InitHdr /\ [][NextHdr]_vars

(***************************************************************************)
(* Spec: the lifetime of one constructed engine and of the devices it      *)
(* issued.  Rust ownership gives the guards: a method of Wurfl takes &self *)
(* and needs the Wurfl value to exist; a method of Device takes &self and  *)
(* needs that Device value to exist; drop runs once, when the value goes   *)
(* away.  Device (device.rs:2-7) holds copies of the two raw handles and   *)
(* borrows nothing from the Wurfl that made it, so nothing orders the drop *)
(* of the Wurfl after the drops of its devices.                            *)
(*                                                                         *)
(* lastCall records the last native call: its name, whether it was given   *)
(* the engine handle or a device handle, and the state the engine was in   *)
(* when it ran.                                                            *)
(***************************************************************************)
LookupOps ==
    { "wurfl_lookup_useragent", "wurfl_lookup_with_important_header",
      "wurfl_get_device", "wurfl_get_device_with_important_header" }

QueryOps ==
    { "wurfl_enum_create", "wurfl_has_capability", "wurfl_has_virtual_capability",
      "wurfl_get_wurfl_info", "wurfl_get_last_load_time_as_string",
      "wurfl_updater_set_data_url", "wurfl_updater_set_data_frequency",
      "wurfl_updater_set_data_url_timeouts", "wurfl_updater_set_log_path",
      "wurfl_updater_runonce", "wurfl_updater_start", "wurfl_updater_stop" }

DeviceOps ==
    { "wurfl_device_get_id", "wurfl_device_get_capability",
      "wurfl_device_get_virtual_capability", "wurfl_device_get_match_type" }

NativeOn(f, what, d) == [fn |-> f, on |-> what, engineWas |-> engine, dev |-> d]

Init ==
    /\ IdleNew
    /\ IdleErr
    /\ wurfl \in BuiltWurfls
    /\ IdleHdr
    /\ owned = TRUE
    /\ engine = "live"
    /\ destroys = 0
    /\ devices = [d \in 1..MaxDevices |-> "none"]
    /\ lastCall = NoNativeCall
    /\ IdleCache
    /\ IdleDb
    /\ IdleDev
    /\ IdleUpd

\* wurfl.rs:311-329, 333-382, 386-444, 447-465: a lookup hands self.wurfl to
\* the engine and wraps a device handle that is not null in a new Device.
Lookup ==
    /\ owned
    /\ \E f \in LookupOps, d \in 1..MaxDevices, found \in BOOLEAN :
          /\ devices[d] = "none"
          /\ lastCall' = NativeOn(f, "engine", 0)
          /\ devices' = IF found THEN [devices EXCEPT ![d] = "live"] ELSE devices
    /\ UNCHANGED << errVars, dbVars, devVars, updVars, newVars, wurfl, hdrVars, owned, engine,
                    destroys, cacheVars >>

\* Enumerations, metadata accessors and updater calls that enumerate the
\* engine's important headers again and store them in the struct.
QueryRefreshing ==
    /\ owned
    /\ \E f \in QueryOps : lastCall' = NativeOn(f, "engine", 0)
    /\ wurfl' \in BuiltWurfls
    /\ UNCHANGED << errVars, dbVars, devVars, updVars, newVars, hdrVars, owned, engine,
                    destroys, devices, cacheVars >>

\* wurfl.rs:257-308, 468-524, 528-612: the enumerations, the metadata
\* accessors and the updater calls hand self.wurfl to the engine.
Query ==
    /\ owned
    /\ \E f \in QueryOps : lastCall' = NativeOn(f, "engine", 0)
    /\ UNCHANGED << errVars, dbVars, devVars, updVars, newVars, wurfl, hdrVars, owned, engine,
                    destroys, devices, cacheVars >>

\* device.rs:12-145: an accessor hands self.device to the engine.
DeviceAccessor ==
    /\ \E d \in 1..MaxDevices, f \in DeviceOps :
          /\ devices[d] = "live"
          /\ lastCall' = NativeOn(f, "device", d)
    /\ UNCHANGED << errVars, dbVars, devVars, updVars, newVars, wurfl, hdrVars, owned, engine,
                    destroys, devices, cacheVars >>

\* A Device whose drop also destroys the engine handle it holds a copy of.
DropDeviceAndEngine ==
    /\ \E d \in 1..MaxDevices :
          /\ devices[d] = "live"
          /\ devices' = [devices EXCEPT ![d] = "dropped"]
          /\ lastCall' = NativeOn("wurfl_destroy", "engine", d)
    /\ engine' = "destroyed"
    /\ destroys' = destroys + 1
    /\ UNCHANGED << errVars, dbVars, devVars, updVars, newVars, wurfl, hdrVars, owned, cacheVars >>

\* device.rs:149-154
DropDevice ==
    /\ \E d \in 1..MaxDevices :
          /\ devices[d] = "live"
          /\ devices' = [devices EXCEPT ![d] = "dropped"]
          /\ lastCall' = NativeOn("wurfl_device_destroy", "device", d)
    /\ UNCHANGED << errVars, dbVars, devVars, updVars, newVars, wurfl, hdrVars, owned, engine,
                    destroys, cacheVars >>

\* wurfl.rs:621-626
DropWurfl ==
    /\ owned
    /\ owned' = FALSE
    /\ engine' = "destroyed"
    /\ destroys' = destroys + 1
    /\ lastCall' = NativeOn("wurfl_destroy", "engine", 0)
    /\ UNCHANGED << errVars, dbVars, devVars, updVars, newVars, wurfl, hdrVars, devices, cacheVars >>

Next == Lookup \/ Query \/ DeviceAccessor \/ DropDevice \/ DropWurfl

Spec == Init /\ [][Next]_vars

(***************************************************************************)
(* SpecCache: lookups against the engine's matching and lookup cache.      *)
(*                                                                         *)
(* The matching engine and its cache are native code.  They are modelled   *)
(* from spec.md, sections 4.3 and 4.4: a cache probe first (Cached), then  *)
(* the match tiers (Exact, Conclusive, Recovery), then the catch-all       *)
(* device; a result other than None is inserted into the cache, and a full *)
(* LRU cache evicts its least recently accessed entry on insert.  The      *)
(* matching key is a number; the key of a header lookup is the value bound *)
(* to the User-Agent header, 0 when none is bound.                         *)
(*                                                                         *)
(* The cache policy of an engine is what Wurfl::new asked for with         *)
(* wurfl_set_cache_provider; when the constructor made no such call the    *)
(* engine keeps its own default, which the repository does not fix: the    *)
(* model draws it (disabled, or LRU).                                      *)
(***************************************************************************)
Keys == 0..MaxCacheCap

\* A mapping that lacks the arm of code 6, which then falls to the default
\* arm.
get_match_type_no_cached(mt) ==
    CASE mt = 0 -> "WurflMatchTypeExact"
      [] mt = 1 -> "WurflMatchTypeConclusive"
      [] mt = 2 -> "WurflMatchTypeRecovery"
      [] mt = 3 -> "WurflMatchTypeCatchall"
      [] mt = 5 -> "WurflMatchTypeNone"
      [] OTHER -> "WurflMatchTypeNone"

\* A mapping that lacks the arm of the catch-all code, which then falls to
\* the default arm.
get_match_type_no_catchall(mt) ==
    CASE mt = 0 -> "WurflMatchTypeExact"
      [] mt = 1 -> "WurflMatchTypeConclusive"
      [] mt = 2 -> "WurflMatchTypeRecovery"
      [] mt = 5 -> "WurflMatchTypeNone"
      [] mt = 6 -> "WurflMatchTypeCached"
      [] OTHER -> "WurflMatchTypeNone"

\* device.rs:132-145
get_match_type(mt) ==
    CASE mt = 0 -> "WurflMatchTypeExact"
      [] mt = 1 -> "WurflMatchTypeConclusive"
      [] mt = 2 -> "WurflMatchTypeRecovery"
      [] mt = 3 -> "WurflMatchTypeCatchall"
      [] mt = 5 -> "WurflMatchTypeNone"
      [] mt = 6 -> "WurflMatchTypeCached"
      [] OTHER -> "WurflMatchTypeNone"

\* spec.md 4.3, steps 2-5: the match of a key against the database.  Key 0
\* matches no signature; it resolves to the catch-all device when the
\* database has one, and to no device (None) otherwise.
DbMatch(catchall, key) ==
    CASE key = 0 -> IF catchall THEN [id |-> "generic", code |-> 3]
                                ELSE [id |-> "", code |-> 5]
      [] key = 1 -> [id |-> "d1", code |-> 0]
      [] key = 2 -> [id |-> "d2", code |-> 1]
      [] OTHER -> [id |-> "d3", code |-> 2]

CacheIndex(cch, key) == { i \in 1..Len(cch) : cch[i].key = key }

Without(cch, i) == [k \in 1..(Len(cch) - 1) |-> IF k < i THEN cch[k] ELSE cch[k + 1]]

\* spec.md 4.4: insert of a new key, evicting the least recently accessed
\* entry (the first) when the cache is full.
CacheInsert(cch, cap, key, id) ==
    Append(IF Len(cch) >= cap THEN Without(cch, 1) ELSE cch, [key |-> key, id |-> id])

\* spec.md 4.3: the match of a key, and the cache after it.
EngineMatch(policy, cch, catchall, key) ==
    IF policy.kind = "lru" /\ CacheIndex(cch, key) /= {}
    THEN LET i == CHOOSE i \in CacheIndex(cch, key) : TRUE
         IN  [id |-> cch[i].id, code |-> 6, cache |-> Append(Without(cch, i), cch[i])]
    ELSE LET r == DbMatch(catchall, key)
         IN  [id |-> r.id, code |-> r.code,
              cache |-> IF policy.kind = "lru" /\ r.code /= 5
                        THEN CacheInsert(cch, policy.cap, key, r.id)
                        ELSE cch]

\* The entry count written in a cache_extra_config.
ParseCap(cfg) == CHOOSE n \in 1..MaxCacheCap : ToString(n) = cfg.id

\* The policy the engine runs with after a construction: the one of the
\* wurfl_set_cache_provider call the constructor made, else the default.
EnginePolicy(calls, default) ==
    LET setCalls == { i \in 1..Len(calls) : calls[i].fn = "wurfl_set_cache_provider" }
    IN  IF setCalls = {}
        THEN IF default = "lru" THEN [kind |-> "lru", cap |-> MaxCacheCap]
                                ELSE [kind |-> "none", cap |-> 0]
        ELSE LET c == calls[CHOOSE i \in setCalls : TRUE]
             IN  IF c.opt = "WURFL_CACHE_PROVIDER_LRU"
                 THEN [kind |-> "lru", cap |-> ParseCap(c.arg)]
                 ELSE [kind |-> "none", cap |-> 0]

\* The ways the engine of SpecCache is created.
Creations ==
    { [cache_provider |-> p, cache_extra_config |-> NoneStr, engineDefault |-> d] :
          p \in CacheProviders, d \in {"none", "lru"} }
    \cup { [cache_provider |-> "LRU", cache_extra_config |-> Some(Str(ToString(n), FALSE)),
            engineDefault |-> d] : n \in 1..MaxCacheCap, d \in {"none", "lru"} }

\* A construction in which every native call succeeds.
Construct(c) ==
    Wurfl_new(Str("wurfl.zip", FALSE), NoneSeq, NoneSeq, c.cache_provider,
              c.cache_extra_config, [fail |-> "none", at |-> 1, names |-> <<"User-Agent">>])

InitCache ==
    /\ IdleNew
    /\ IdleErr
    /\ IdleHdr
    /\ IdleLife
    /\ IdleDb
    /\ IdleDev
    /\ IdleUpd
    /\ dbCatchall \in BOOLEAN
    /\ creation \in Creations
    /\ wurfl = WurflOf(Construct(creation))
    /\ cachePolicy = EnginePolicy(Construct(creation).calls, creation.engineDefault)
    /\ cache = << >>
    /\ cacheBefore = << >>
    /\ prevLookup = NoLookup
    /\ lastLookup = NoLookup

LookupRecord(f, key, out, id, code) ==
    [op |-> f, key |-> key, out |-> out, id |-> id, code |-> code]

\* The native lookup of a key: a null handle (an engine failure), or the
\* device the engine matched.
NativeLookup(f, key, null) ==
    IF null
    THEN /\ lastLookup' = LookupRecord(f, key, "Err", "", 0 - 1)
         /\ cache' = cache
    ELSE LET m == EngineMatch(cachePolicy, cache, dbCatchall, key)
         IN  /\ lastLookup' = LookupRecord(f, key, "Ok", m.id, m.code)
             /\ cache' = m.cache

\* wurfl.rs:311-329
LookupUseragent ==
    /\ wurfl.valid
    /\ \E key \in Keys, nul \in BOOLEAN, null \in BOOLEAN :
          LET user_agent == Str(key, nul)
          IN  IF ~CString_new_ok(user_agent)
              THEN /\ lastLookup' = LookupRecord("lookup_useragent", key, "Err", "", 0 - 1)
                   /\ cache' = cache
              ELSE NativeLookup("lookup_useragent", key, null)
    /\ prevLookup' = lastLookup
    /\ cacheBefore' = cache
    /\ UNCHANGED << errVars, dbVars, devVars, updVars, newVars, wurfl, hdrVars, lifeVars,
                    cachePolicy, dbCatchall, creation >>

\* The requests of SpecCache: no header, a User-Agent with a key as its
\* value, or a User-Agent whose value is not UTF-8.
CacheRequests ==
    { << >> } \cup { << <<"user-agent", Bytes(k, TRUE, FALSE)>> >> : k \in Keys }
              \cup { << <<"user-agent", Bytes(k, FALSE, FALSE)>> >> : k \in Keys }

\* spec.md 4.2: the matching key made of the selected header values.
KeyOf(bindings) ==
    IF "User-Agent" \in DOMAIN bindings THEN bindings["User-Agent"].id ELSE 0

\* wurfl.rs:333-382
LookupHeaders ==
    /\ wurfl.valid
    /\ \E headers \in CacheRequests, o \in HdrOracles :
          LET hc == lookup_with_headers(wurfl, headers, o)
          IN  IF hc.looked
              THEN NativeLookup("lookup_with_headers", KeyOf(hc.bindings), hc.out = "Err")
              ELSE /\ lastLookup' = LookupRecord("lookup_with_headers", 0 - 1, "Err", "", 0 - 1)
                   /\ cache' = cache
    /\ prevLookup' = lastLookup
    /\ cacheBefore' = cache
    /\ UNCHANGED << errVars, dbVars, devVars, updVars, newVars, wurfl, hdrVars, lifeVars,
                    cachePolicy, dbCatchall, creation >>

NextCache == LookupUseragent \/ LookupHeaders

SpecCache == InitCache /\ [][NextCache]_vars

(***************************************************************************)
(* Claims about matching and the cache, checked under SpecCache.           *)
(***************************************************************************)
\* C9: when the loaded database contains a catch-all device, a header lookup
\* that returns Ok yields a device whose match type is not None.
C9_NeverNoneWithCatchall ==
    ( dbCatchall /\ lastLookup.op = "lookup_with_headers" /\ lastLookup.out = "Ok" ) =>
        get_match_type(lastLookup.code) /= "WurflMatchTypeNone"

\* C9's case: after an earlier lookup, a header lookup of a key no signature
\* matches resolves to the catch-all device.
C9_Witness ==
    /\ dbCatchall
    /\ prevLookup.out = "Ok"
    /\ lastLookup.op = "lookup_with_headers"
    /\ lastLookup.out = "Ok"
    /\ get_match_type(lastLookup.code) = "WurflMatchTypeCatchall"

\* C10 as claimed: on an engine created with the LRU cache provider, the
\* lookup that immediately follows a successful lookup with the same key
\* returns match type Cached and the device id of the first lookup.
C10_RepeatIsCached ==
    ( /\ creation.cache_provider = "LRU"
      /\ prevLookup.out = "Ok"
      /\ get_match_type(prevLookup.code) /= "WurflMatchTypeNone"
      /\ lastLookup.out = "Ok"
      /\ lastLookup.key = prevLookup.key ) =>
        /\ get_match_type(lastLookup.code) = "WurflMatchTypeCached"
        /\ lastLookup.id = prevLookup.id

(***************************************************************************)
(* Claims about lifetimes, checked under Spec.                             *)
(***************************************************************************)
\* C1 as claimed: the engine is not destroyed while a Device it produced
\* exists, so no Device accessor and no wurfl_device_destroy runs on a
\* device whose engine has been destroyed.
C1_DeviceNeverOutlivesEngine ==
    /\ engine = "destroyed" => \A d \in 1..MaxDevices : devices[d] /= "live"
    /\ lastCall.on = "device" => lastCall.engineWas = "live"

\* C2: the engine handle is destroyed at most once, exactly once when the
\* Wurfl value is gone, and every native call that is given the engine
\* handle, wurfl_destroy included, runs while the engine is live.
C2_EngineDestroyedOnce ==
    /\ destroys <= 1
    /\ engine = "destroyed" <=> destroys = 1
    /\ ~owned <=> destroys = 1
    /\ lastCall.on = "engine" => lastCall.engineWas = "live"

\* C2's case: the engine was destroyed and the program went on with a call
\* on a device.
C2_Witness ==
    /\ engine = "destroyed"
    /\ destroys = 1
    /\ lastCall.on = "device"

(***************************************************************************)
(* Claims about Wurfl::new, checked under SpecNew.                         *)
(***************************************************************************)
\* The place of a native call in the order of the construction steps.
StepRank(f) ==
    CASE f = "wurfl_create" -> 1
      [] f = "wurfl_set_root" -> 2
      [] f = "wurfl_set_cache_provider" -> 3
      [] f = "wurfl_add_patch" -> 4
      [] f = "wurfl_add_requested_capability" -> 5
      [] f = "wurfl_load" -> 6
      [] f = "wurfl_get_important_header_enumerator" -> 7
      [] f = "wurfl_important_header_enumerator_destroy" -> 8

HasNulIn(opt) == opt.some /\ \E i \in 1..Len(opt.v) : opt.v[i].nul

LastFn(calls) == calls[Len(calls)].fn
MaxRank(calls) == StepRank(LastFn(calls))
Issued(calls, f) == \E i \in 1..Len(calls) : calls[i].fn = f
IssuedNul(calls) == \E i \in 1..Len(calls) : calls[i].arg.nul

\* A native call of the construction failed: the handle is null or the
\* engine holds an error message.
NativeFailed(res) == res.handle = "null" \/ res.lastErr /= NoMsg

\* The outcome is all or nothing: Ok with a struct, or Err with a message
\* and no struct.
NewOutcomeShape ==
    /\ newRes.out \in {"Ok", "Err"}
    /\ wurfl.valid <=> newRes.out = "Ok"
    /\ newRes.out = "Err" => newRes.msg /= NoMsg

\* A failed native call is fatal, and it is the last construction step.
NewNativeFailureFatal ==
    NativeFailed(newRes) =>
        /\ newRes.out = "Err"
        /\ newRes.handle = "live" =>
              /\ newRes.msg = EngineMsg(LastFn(newRes.calls))
              /\ newRes.msg = newRes.lastErr

\* An argument with a NUL byte never reaches the engine, and the step that
\* meets it is the last: no step of its rank or later follows.
NewNulStops ==
    /\ ~IssuedNul(newRes.calls)
    /\ newRes.msg = WrapperMsg("Error creating CString from wurfl xml file path")
          => MaxRank(newRes.calls) < StepRank("wurfl_set_root")
    /\ newRes.msg = WrapperMsg("Invalid cache_extra_config passed in create WURFL engine. Possibly a nul character in the input string")
          => MaxRank(newRes.calls) < StepRank("wurfl_set_cache_provider")
    /\ newRes.msg = WrapperMsg("Invalid patch path passed")
          => MaxRank(newRes.calls) <= StepRank("wurfl_add_patch")
    /\ newRes.msg = WrapperMsg("Invalid capability filter passed")
          => MaxRank(newRes.calls) <= StepRank("wurfl_add_requested_capability")

\* An engine is returned only after load and the header enumeration.
NewOkRanAll ==
    newRes.out = "Ok" =>
        /\ ~NativeFailed(newRes)
        /\ Issued(newRes.calls, "wurfl_load")
        /\ LastFn(newRes.calls) = "wurfl_important_header_enumerator_destroy"

\* C3 as amended: Wurfl::new returns an engine only if every construction
\* step succeeded.  A failed native step, or a NUL byte in the path, in a
\* patch name, in a filter name, or in the cache config of an LRU selection,
\* ends the construction at that step with Err and a message, and no Wurfl
\* value is produced.
C3_NewAllOrNothing ==
    newArgs.called =>
        /\ NewOutcomeShape
        /\ NewNativeFailureFatal
        /\ NewNulStops
        /\ NewOkRanAll
        /\ ( \/ newArgs.wurfl_xml.nul
             \/ HasNulIn(newArgs.patches)
             \/ HasNulIn(newArgs.cap_filter)
             \/ ( /\ newArgs.cache_provider = "LRU"
                  /\ newArgs.cache_extra_config.some
                  /\ newArgs.cache_extra_config.v.nul ) ) => newRes.out = "Err"

\* C3's case: a construction whose second patch is refused by the engine.
C3_Witness ==
    /\ newArgs.called
    /\ newRes.out = "Err"
    /\ newRes.msg = EngineMsg("wurfl_add_patch")
    /\ Len(newRes.calls) >= 4

\* C3 as claimed: as above, with Err for a NUL byte in any cache config,
\* whatever the cache provider.
C3_AsClaimed ==
    newArgs.called =>
        /\ NewOutcomeShape
        /\ NewNativeFailureFatal
        /\ NewNulStops
        /\ NewOkRanAll
        /\ ( \/ newArgs.wurfl_xml.nul
             \/ HasNulIn(newArgs.patches)
             \/ HasNulIn(newArgs.cap_filter)
             \/ ( /\ newArgs.cache_extra_config.some
                  /\ newArgs.cache_extra_config.v.nul ) ) => newRes.out = "Err"

(***************************************************************************)
(* Claims about the header lookups, checked under SpecHdr.                 *)
(***************************************************************************)
ValueMsg == WrapperMsg("Unable to convert header value to C string")

\* The name equals, ignoring letter case, a header name the engine
\* enumerated at load time.
IsImportant(name) ==
    \E j \in 1..Len(wurfl.important_header_names) :
        to_lowercase(wurfl.important_header_names[j]) = to_lowercase(name)

\* The value can be handed to the engine: UTF-8 text without a NUL byte.
Encodable(value) == value.utf8 /\ ~value.nul

\* The entry at position i of the request was handed to the engine.
PassedFrom(hc, i) == \E k \in 1..Len(hc.sets) : hc.sets[k].from = i

\* The (name, value) pairs handed to the engine, in order.
Passed(hc) == [k \in 1..Len(hc.sets) |-> << hc.sets[k].name, hc.sets[k].value >>]

RemoveAt(q, i) == [k \in 1..(Len(q) - 1) |-> IF k < i THEN q[k] ELSE q[k + 1]]

Orderings(n) == { f \in [1..n -> 1..n] : \A a, b \in 1..n : f[a] = f[b] => a = b }

\* The call of hc made again with another list of headers.
Replay(hc, headers) ==
    IF hc.op = "lookup_with_headers"
    THEN lookup_with_headers(wurfl, headers, hc.o)
    ELSE lookup_device_id_with_headers(wurfl, hc.device_id, headers, hc.o)

SameEffect(a, b) ==
    /\ Passed(a) = Passed(b)
    /\ a.bindings = b.bindings
    /\ a.created = b.created
    /\ a.destroyed = b.destroyed
    /\ a.looked = b.looked
    /\ a.out = b.out
    /\ a.msg = b.msg

\* Some important header of the request has a text value with a NUL byte.
HasNulHeader(headers) ==
    \E j \in 1..Len(headers) :
        IsImportant(headers[j][1]) /\ headers[j][2].utf8 /\ headers[j][2].nul

\* C4 as claimed: every important-header object created by a header lookup
\* is destroyed exactly once before the call returns, on every exit path.
C4_HeaderObjectDestroyedOnce ==
    hdrCall.created => hdrCall.destroyed = 1

\* C5: an important header whose value is not valid UTF-8 is skipped.  It is
\* not handed to the engine, and the call does what it does without that
\* entry: the same headers are passed, the same lookup is performed and the
\* same outcome is returned.  When no other header ends the call, every
\* other encodable important header is passed and the lookup is performed.
C5_NonUtf8HeaderSkipped ==
    hdrCall.op /= "none" =>
        \A i \in 1..Len(hdrCall.headers) :
            ( IsImportant(hdrCall.headers[i][1]) /\ ~hdrCall.headers[i][2].utf8 ) =>
                /\ ~PassedFrom(hdrCall, i)
                /\ SameEffect(hdrCall, Replay(hdrCall, RemoveAt(hdrCall.headers, i)))
                /\ ( hdrCall.created /\ ~HasNulHeader(hdrCall.headers) ) =>
                      /\ hdrCall.looked
                      /\ hdrCall.msg /= ValueMsg
                      /\ \A j \in 1..Len(hdrCall.headers) :
                            ( IsImportant(hdrCall.headers[j][1])
                              /\ Encodable(hdrCall.headers[j][2]) ) => PassedFrom(hdrCall, j)

\* C5's case: a request with an important header that is not UTF-8 and
\* another important header, which is passed, and the lookup returns Ok.
C5_Witness ==
    /\ hdrCall.out = "Ok"
    /\ Len(hdrCall.sets) = 1
    /\ \E i \in 1..Len(hdrCall.headers) :
          IsImportant(hdrCall.headers[i][1]) /\ ~hdrCall.headers[i][2].utf8

\* C6 as claimed: a header value never makes a header lookup return an
\* error; once the header object exists the native lookup is performed.
C6_HeaderValueNeverAnError ==
    hdrCall.created => ( hdrCall.looked /\ hdrCall.msg /= ValueMsg )

\* C7 as claimed: in lookup_with_headers an entry with an encodable value is
\* handed to the engine if and only if its name is important, and then under
\* a spelling the engine enumerated for that name.
C7_ImportantHeadersPassed ==
    ( hdrCall.op = "lookup_with_headers" /\ hdrCall.created ) =>
        \A i \in 1..Len(hdrCall.headers) :
            Encodable(hdrCall.headers[i][2]) =>
                /\ PassedFrom(hdrCall, i) <=> IsImportant(hdrCall.headers[i][1])
                /\ \A k \in 1..Len(hdrCall.sets) :
                      hdrCall.sets[k].from = i =>
                          /\ hdrCall.sets[k].value = hdrCall.headers[i][2]
                          /\ \E j \in 1..Len(wurfl.important_header_names) :
                                /\ wurfl.important_header_names[j] = hdrCall.sets[k].name
                                /\ to_lowercase(wurfl.important_header_names[j])
                                      = to_lowercase(hdrCall.headers[i][1])

\* C8 as claimed: the bindings handed to the native lookup by
\* lookup_with_headers are the same for every ordering of the request.
C8_OrderIndependent ==
    ( hdrCall.op = "lookup_with_headers" /\ hdrCall.looked ) =>
        \A f \in Orderings(Len(hdrCall.headers)) :
            LET reordered == [k \in 1..Len(hdrCall.headers) |-> hdrCall.headers[f[k]]]
            IN  Replay(hdrCall, reordered).bindings = hdrCall.bindings

\* C11 as claimed: on an engine created with WurflCacheProvider::NoCache no
\* lookup, after any sequence of earlier lookups, returns match type Cached.
C11_NoCacheNeverCached ==
    ( creation.cache_provider = "NoCache" /\ lastLookup.out = "Ok" ) =>
        get_match_type(lastLookup.code) /= "WurflMatchTypeCached"

\* C12 as claimed: an LRU selection puts the LRU policy with the configured
\* entry count on the engine whenever an engine is returned, and an LRU
\* selection with no entry count, or one that cannot be encoded, makes
\* Wurfl::new return Err.
C12_LruSelectionValidated ==
    ( newArgs.called /\ newArgs.cache_provider = "LRU" ) =>
        /\ newRes.out = "Ok" =>
              \E i \in 1..Len(newRes.calls) :
                  /\ newRes.calls[i].fn = "wurfl_set_cache_provider"
                  /\ newRes.calls[i].opt = "WURFL_CACHE_PROVIDER_LRU"
                  /\ newArgs.cache_extra_config.some
                  /\ newRes.calls[i].arg = newArgs.cache_extra_config.v
        /\ ( ~newArgs.cache_extra_config.some \/ newArgs.cache_extra_config.v.nul )
              => newRes.out = "Err"

(***************************************************************************)
(* SpecDb: the device id operations on an engine with a loaded database.   *)
(***************************************************************************)
MaxDbIds == 3

\* The ids a database may hold; the last one is not valid UTF-8.
DbIdBytes == { CStr("generic", TRUE), CStr("d1", TRUE), CStr("d2", TRUE), CStr("x", FALSE) }

\* A loaded database: at least one device, no id twice.
Databases ==
    { db \in SeqsUpTo(DbIdBytes, MaxDbIds) :
          /\ Len(db) >= 1
          /\ \A i, j \in 1..Len(db) : db[i] = db[j] => i = j }

\* The device_id arguments: ids that may be in the database, one that is
\* not, and one with a NUL byte.
IdArgs ==
    { Str("generic", FALSE), Str("d1", FALSE), Str("d2", FALSE), Str("d9", FALSE),
      Str("d1", TRUE) }

InitDb ==
    /\ IdleNew
    /\ IdleErr
    /\ IdleHdr
    /\ IdleLife
    /\ IdleCache
    /\ IdleDev
    /\ IdleUpd
    /\ wurfl = WurflOf(Construct([cache_provider |-> "NoCache", cache_extra_config |-> NoneStr]))
    /\ database \in Databases
    /\ idCall = NoIdCall

\* wurfl.rs:447-465
LookupDeviceId ==
    /\ wurfl.valid
    /\ \E device_id \in IdArgs : idCall' = lookup_device_id(database, device_id)
    /\ UNCHANGED << errVars, newVars, wurfl, hdrVars, lifeVars, cacheVars, database, devVars, updVars >>

\* device.rs:12-15, on the Device the last lookup returned.
GetDeviceId ==
    /\ idCall.op = "lookup_device_id"
    /\ idCall.out = "Ok"
    /\ idCall.got = NoGot
    /\ idCall' = [idCall EXCEPT !.got = get_device_id(idCall.dev)]
    /\ UNCHANGED << errVars, newVars, wurfl, hdrVars, lifeVars, cacheVars, database, devVars, updVars >>

\* wurfl.rs:468-496
GetAllDeviceIds ==
    /\ wurfl.valid
    /\ \E enumNull \in BOOLEAN :
          idCall' = IdCall("get_all_device_ids", NoArg, "Ok", CStr("", TRUE),
                           get_all_device_ids(database, enumNull))
    /\ UNCHANGED << errVars, newVars, wurfl, hdrVars, lifeVars, cacheVars, database, devVars, updVars >>

NextDb == LookupDeviceId \/ GetDeviceId \/ GetAllDeviceIds

SpecDb == InitDb /\ [][NextDb]_vars

(***************************************************************************)
(* Claims about device ids, checked under SpecDb.                          *)
(***************************************************************************)
\* The device_id is the id of a device of the database.
InDatabase(device_id) ==
    ~device_id.nul /\ \E i \in 1..Len(database) : database[i] = as_ptr(device_id)

\* lookup_device_id of the id returns a Device whose get_device_id is the id.
RoundTrips(device_id) ==
    LET r == lookup_device_id(database, device_id)
    IN  r.out = "Ok" /\ get_device_id(r.dev) = Returned(device_id.id)

\* C13 as claimed: lookup_device_id of an id of the database returns Ok with
\* a Device whose get_device_id is that id; every id of the database is in
\* the vector get_all_device_ids returns, and every id of that vector can be
\* looked up and round-trips to itself.
C13_IdsRoundTrip ==
    /\ ( idCall.op = "lookup_device_id" /\ InDatabase(idCall.arg) ) =>
          /\ idCall.out = "Ok"
          /\ idCall.got /= NoGot => idCall.got = Returned(idCall.arg.id)
    /\ idCall.op = "get_all_device_ids" =>
          /\ \A i \in 1..Len(database) :
                \E k \in 1..Len(idCall.ids) : as_ptr(idCall.ids[k]) = database[i]
          /\ \A k \in 1..Len(idCall.ids) : RoundTrips(idCall.ids[k])

\* The part of C13 the code keeps: the round trip of the ids handed to
\* lookup_device_id, and of the ids get_all_device_ids does return.
C13_ReturnedIdsRoundTrip ==
    /\ ( idCall.op = "lookup_device_id" /\ InDatabase(idCall.arg) ) =>
          /\ idCall.out = "Ok"
          /\ idCall.got /= NoGot => idCall.got = Returned(idCall.arg.id)
    /\ idCall.op = "get_all_device_ids" =>
          \A k \in 1..Len(idCall.ids) : RoundTrips(idCall.ids[k])

(***************************************************************************)
(* SpecDev: one accessor call on a Device, over the data the engine may    *)
(* hold for the device and over the names asked for.                       *)
(***************************************************************************)
MaxNames == 2
MaxCode == 8

CapNames == { "brand_name", "model_name" }
VcapNames == { "is_mobile" }

\* The values the engine may hold; the second is not valid UTF-8.
CapValues == { CStr("Apple", TRUE), CStr("bad", FALSE) }

Tables(names) == UNION { [S -> CapValues] : S \in SUBSET names }

\* wurfl_device_get_match_type returns a C int.
RawCodes == (0 - MaxCode)..MaxCode

Profiles ==
    { [caps |-> c, vcaps |-> v, mt |-> m] :
          c \in Tables(CapNames), v \in Tables(VcapNames), m \in RawCodes }

\* The names asked for: defined ones, an undefined one, one with a NUL byte.
CapArgs ==
    { Str("brand_name", FALSE), Str("model_name", FALSE), Str("undefined_cap", FALSE),
      Str("brand_name", TRUE) }
VcapArgs == { Str("is_mobile", FALSE), Str("undefined_vcap", FALSE), Str("is_mobile", TRUE) }

InitDev ==
    /\ IdleNew
    /\ IdleErr
    /\ IdleHdr
    /\ IdleLife
    /\ IdleCache
    /\ IdleDb
    /\ IdleUpd
    /\ wurfl = NoWurfl
    /\ profile \in Profiles
    /\ devCall = NoDevCall

Single(f, name, r) == [DevCall(f, << name >>) EXCEPT !.out = r.out, !.v = r.v]
Batch(f, names, r) == [DevCall(f, names) EXCEPT !.out = r.out, !.map = r.map, !.msg = r.msg]

\* device.rs:51-61
GetCapability ==
    /\ devCall = NoDevCall
    /\ \E name \in CapArgs :
          devCall' = Single("get_capability", name, get_capability(profile.caps, name))
    /\ UNCHANGED << errVars, newVars, wurfl, hdrVars, lifeVars, cacheVars, dbVars, profile, updVars >>

\* device.rs:64-74
GetVirtualCapability ==
    /\ devCall = NoDevCall
    /\ \E name \in VcapArgs :
          devCall' = Single("get_virtual_capability", name,
                            get_virtual_capability(profile.vcaps, name))
    /\ UNCHANGED << errVars, newVars, wurfl, hdrVars, lifeVars, cacheVars, dbVars, profile, updVars >>

\* device.rs:77-102
GetCapabilities ==
    /\ devCall = NoDevCall
    /\ \E cap_names \in SeqsUpTo(CapArgs, MaxNames) :
          devCall' = Batch("get_capabilities", cap_names,
                           get_capabilities(profile.caps, cap_names))
    /\ UNCHANGED << errVars, newVars, wurfl, hdrVars, lifeVars, cacheVars, dbVars, profile, updVars >>

\* device.rs:105-129
GetVirtualCapabilities ==
    /\ devCall = NoDevCall
    /\ \E vcap_names \in SeqsUpTo(VcapArgs, MaxNames) :
          devCall' = Batch("get_virtual_capabilities", vcap_names,
                           get_virtual_capabilities(profile.vcaps, vcap_names))
    /\ UNCHANGED << errVars, newVars, wurfl, hdrVars, lifeVars, cacheVars, dbVars, profile, updVars >>

\* device.rs:132-145
GetMatchType ==
    /\ devCall = NoDevCall
    /\ LET mt == profile.mt
       IN  devCall' = [DevCall("get_match_type", << >>) EXCEPT
                          !.out = "Ok", !.v = get_match_type(mt), !.raw = mt]
    /\ UNCHANGED << errVars, newVars, wurfl, hdrVars, lifeVars, cacheVars, dbVars, profile, updVars >>

NextDev ==
    \/ GetCapability
    \/ GetVirtualCapability
    \/ GetCapabilities
    \/ GetVirtualCapabilities
    \/ GetMatchType

SpecDev == InitDev /\ [][NextDev]_vars

(***************************************************************************)
(* Claims about the Device accessors, checked under SpecDev.               *)
(***************************************************************************)
IsBatch == devCall.op \in { "get_capabilities", "get_virtual_capabilities" }

\* The table a call reads, and the single accessor of the same kind.
TableOf(call) ==
    IF call.op \in { "get_capability", "get_capabilities" } THEN profile.caps
                                                            ELSE profile.vcaps
SingleOf(call, name) ==
    IF call.op = "get_capabilities" THEN get_capability(profile.caps, name)
                                    ELSE get_virtual_capability(profile.vcaps, name)

Requested(call) == { call.names[i] : i \in 1..Len(call.names) }
HasNulName(call) == \E n \in Requested(call) : n.nul
Defined(call, n) == ~n.nul /\ n.id \in DOMAIN TableOf(call)
HasBadValue(call) == \E n \in Requested(call) : Defined(call, n) /\ ~TableOf(call)[n.id].utf8

\* An Ok result holds exactly the requested names that are defined for the
\* device, each with the value of the single accessor.
BatchMapExact ==
    devCall.out = "Ok" =>
        /\ DOMAIN devCall.map = { n.id : n \in { m \in Requested(devCall) : Defined(devCall, m) } }
        /\ \A n \in Requested(devCall) :
              Defined(devCall, n) =>
                  SingleOf(devCall, n) = [out |-> "Some", v |-> devCall.map[n.id]]

\* C14 as amended: a batch accessor returns Ok with a map of exactly the
\* requested names defined for the device, each with the value the single
\* accessor returns; an undefined name is left out and causes no error; the
\* call returns Err exactly when a requested name holds a NUL byte or the
\* value of a requested name is not valid UTF-8.
C14_BatchResolves ==
    IsBatch =>
        /\ devCall.out \in { "Ok", "Err" }
        /\ BatchMapExact
        /\ devCall.out = "Err" <=> ( HasNulName(devCall) \/ HasBadValue(devCall) )

\* C14's case: a request that names a defined and an undefined capability
\* returns Ok with the defined one alone.
C14_Witness ==
    /\ IsBatch
    /\ devCall.out = "Ok"
    /\ Len(devCall.names) = 2
    /\ Cardinality(DOMAIN devCall.map) = 1
    /\ \E n \in Requested(devCall) : ~Defined(devCall, n)

\* C14 as claimed: as above, with Err only when a requested name holds a
\* NUL byte.
C14_AsClaimed ==
    IsBatch =>
        /\ devCall.out \in { "Ok", "Err" }
        /\ BatchMapExact
        /\ devCall.out = "Err" <=> HasNulName(devCall)

\* The engine holds a value that is not valid UTF-8 for a name the call asks
\* for.
AsksBadValue ==
    /\ devCall.op \in { "get_capability", "get_virtual_capability",
                        "get_capabilities", "get_virtual_capabilities" }
    /\ ~HasNulName(devCall)
    /\ HasBadValue(devCall)

\* C15 as claimed: no resolver operation panics; a value that is not valid
\* UTF-8 is reported as an error (never as None, never left out of an Ok
\* map), and a name with a NUL byte is not reported as undefined (None).
C15_EncodingErrorsExplicit ==
    /\ devCall.out /= "Panic"
    /\ AsksBadValue => devCall.out = "Err"
    /\ ( devCall.op \in { "get_capability", "get_virtual_capability" }
         /\ HasNulName(devCall) ) => devCall.out /= "None"

\* The part of C15 the batch accessors keep: they never panic, and a value
\* that is not valid UTF-8 or a name with a NUL byte makes them return Err.
C15_BatchErrorsExplicit ==
    IsBatch =>
        /\ devCall.out /= "Panic"
        /\ ( AsksBadValue \/ HasNulName(devCall) ) => devCall.out = "Err"

\* C20: get_match_type never fails and maps the raw match code 0 to Exact,
\* 1 to Conclusive, 2 to Recovery, 3 to Catchall, 5 to None, 6 to Cached and
\* every other code, 4 and the negative ones included, to None; the codes
\* 0, 1, 2, 3 and 6 map to five different match types.
C20_MatchTypeTotal ==
    devCall.op = "get_match_type" =>
        /\ devCall.out = "Ok"
        /\ devCall.raw = profile.mt
        /\ devCall.raw = 0 => devCall.v = "WurflMatchTypeExact"
        /\ devCall.raw = 1 => devCall.v = "WurflMatchTypeConclusive"
        /\ devCall.raw = 2 => devCall.v = "WurflMatchTypeRecovery"
        /\ devCall.raw = 3 => devCall.v = "WurflMatchTypeCatchall"
        /\ devCall.raw = 5 => devCall.v = "WurflMatchTypeNone"
        /\ devCall.raw = 6 => devCall.v = "WurflMatchTypeCached"
        /\ devCall.raw \notin {0, 1, 2, 3, 5, 6} => devCall.v = "WurflMatchTypeNone"
        /\ \A other \in {0, 1, 2, 3, 6} :
              other /= devCall.raw /\ devCall.raw \in {0, 1, 2, 3, 6}
                  => get_match_type(other) /= devCall.v

\* C20's case: the deprecated code 4 was read and mapped to None.
C20_Witness ==
    /\ devCall.op = "get_match_type"
    /\ devCall.raw = 4
    /\ devCall.v = "WurflMatchTypeNone"

(***************************************************************************)
(* SpecUpd: header lookups on an engine whose updater replaces the         *)
(* database.                                                               *)
(*                                                                         *)
(* The updater is native code; it is modelled from spec.md 3 and 6: an     *)
(* update replaces the engine's database by the next version, and each     *)
(* version comes with its own important-header set.  The Wurfl struct      *)
(* holds the header map Wurfl::new enumerated (wurfl.rs:200-237), and     *)
(* hdrLoaded is the version it was enumerated from.  No method of Wurfl    *)
(* writes the map again: the updater methods (wurfl.rs:528-612) only call  *)
(* the engine.                                                             *)
(*                                                                         *)
(* Wurfl is Sync: a lookup runs on one thread while the updater runs on    *)
(* another.  A header lookup is two steps: the selection of the request's  *)
(* headers with the struct's map (wurfl.rs:336-369), then the native       *)
(* lookup against the database the engine holds at that moment             *)
(* (wurfl.rs:371-381).                                                     *)
(***************************************************************************)
MaxVersions == 3

\* The important headers of a database version.
ImportantHeadersOf(version) ==
    IF version % 2 = 1 THEN << "User-Agent" >> ELSE << "User-Agent", "X-Dev" >>

\* The construction of an engine on a database of the given version.
LoadedAt(version) ==
    Wurfl_new(Str("wurfl.zip", FALSE), NoneSeq, NoneSeq, "NoCache", NoneStr,
              [fail |-> "none", at |-> 1, names |-> ImportantHeadersOf(version)])

\* The requests of SpecUpd.
UpdRequests ==
    { << >>,
      << <<"user-agent", Bytes("a", TRUE, FALSE)>> >>,
      << <<"x-dev", Bytes("b", TRUE, FALSE)>> >>,
      << <<"user-agent", Bytes("a", TRUE, FALSE)>>, <<"X-Dev", Bytes("b", TRUE, FALSE)>> >>,
      << <<"X-Dev", Bytes("b", TRUE, FALSE)>>, <<"accept", Bytes("a", TRUE, FALSE)>> >>,
      << <<"user-agent", Bytes("x", FALSE, FALSE)>> >>,
      << <<"user-agent", Bytes("z", TRUE, TRUE)>> >> }

InitUpd ==
    /\ IdleNew
    /\ IdleErr
    /\ IdleLife
    /\ IdleCache
    /\ IdleDb
    /\ IdleDev
    /\ dbVersion \in 1..MaxVersions
    /\ hdrLoaded = dbVersion
    /\ wurfl = WurflOf(LoadedAt(dbVersion))
    /\ updater = "stopped"
    /\ flight = NoFlight
    /\ hdrCall = NoHdrCall

\* The engine replaces its database by the next version.
Replace == dbVersion' = IF dbVersion < MaxVersions THEN dbVersion + 1 ELSE dbVersion

\* wurfl.rs:588-594: one update run; it may fail, find nothing new, or
\* replace the database.
UpdaterRunonce ==
    /\ wurfl.valid
    /\ \E replaced \in BOOLEAN : IF replaced THEN Replace ELSE dbVersion' = dbVersion
    /\ UNCHANGED << errVars, newVars, wurfl, hdrVars, lifeVars, cacheVars, dbVars, devVars,
                    hdrLoaded, updater, flight >>

\* wurfl.rs:597-603
UpdaterStart ==
    /\ wurfl.valid
    /\ \E ok \in BOOLEAN : updater' = IF ok THEN "running" ELSE updater
    /\ UNCHANGED << errVars, newVars, wurfl, hdrVars, lifeVars, cacheVars, dbVars, devVars,
                    dbVersion, hdrLoaded, flight >>

\* wurfl.rs:606-612
UpdaterStop ==
    /\ wurfl.valid
    /\ \E ok \in BOOLEAN : updater' = IF ok THEN "stopped" ELSE updater
    /\ UNCHANGED << errVars, newVars, wurfl, hdrVars, lifeVars, cacheVars, dbVars, devVars,
                    dbVersion, hdrLoaded, flight >>

\* The periodic updater, on the engine's own thread, replaces the database.
PeriodicUpdate ==
    /\ updater = "running"
    /\ dbVersion < MaxVersions
    /\ Replace
    /\ UNCHANGED << errVars, newVars, wurfl, hdrVars, lifeVars, cacheVars, dbVars, devVars,
                    hdrLoaded, updater, flight >>

\* wurfl.rs:336-369: the header object is created and the request's headers
\* are selected with the header map of the struct.
LookupSelect ==
    /\ wurfl.valid
    /\ flight.pc \in { "idle", "done" }
    /\ \E headers \in UpdRequests :
          LET hc == select_loop(
                      header_create(StartHdrCall("lookup_with_headers", NoArg, headers,
                                                 [create |-> "ok", lookup |-> "device"])),
                      wurfl.important_header_cstring_names, headers, 1)
          IN  /\ hdrCall' = hc
              /\ flight' = [pc |-> IF hc.out = "run" THEN "selected" ELSE "done",
                            hdrVersion |-> hdrLoaded, dbVersion |-> 0]
    /\ UNCHANGED << errVars, newVars, wurfl, lifeVars, cacheVars, dbVars, devVars,
                    dbVersion, hdrLoaded, updater >>

\* wurfl.rs:371-381: the native lookup, against the database the engine
\* holds now.
LookupMatch ==
    /\ flight.pc = "selected"
    /\ hdrCall' = header_lookup(hdrCall, "wurfl_lookup_with_important_header")
    /\ flight' = [flight EXCEPT !.pc = "done", !.dbVersion = dbVersion]
    /\ UNCHANGED << errVars, newVars, wurfl, lifeVars, cacheVars, dbVars, devVars,
                    dbVersion, hdrLoaded, updater >>

NextUpd ==
    \/ UpdaterRunonce
    \/ UpdaterStart
    \/ UpdaterStop
    \/ PeriodicUpdate
    \/ LookupSelect
    \/ LookupMatch

SpecUpd == InitUpd /\ [][NextUpd]_vars

(***************************************************************************)
(* Claims about the updater, checked under SpecUpd.                        *)
(***************************************************************************)
\* C16 as claimed: the header set a header lookup selected the request's
\* headers with and the database it was matched against are of the same
\* database version.
C16_LookupUsesOneSnapshot ==
    ( flight.pc = "done" /\ hdrCall.looked ) =>
        /\ flight.hdrVersion = flight.dbVersion
        /\ hdrCall.sets =
              lookup_with_headers(WurflOf(LoadedAt(flight.dbVersion)), hdrCall.headers,
                                  hdrCall.o).sets

(***************************************************************************)
(* Claims about the LRU bound, checked under SpecCache.                    *)
(***************************************************************************)
CachedKeys(cch) == { cch[i].key : i \in 1..Len(cch) }

\* The engine was created with the LRU provider and an entry count.
LruWithCap == creation.cache_provider = "LRU" /\ creation.cache_extra_config.some

\* The last lookup found its key in the cache.
LastHit == lastLookup.out = "Ok" /\ lastLookup.key \in CachedKeys(cacheBefore)

\* The last lookup matched a key that was not in the cache, which the
\* engine then inserts.
LastInserted ==
    /\ lastLookup.out = "Ok"
    /\ lastLookup.key \notin CachedKeys(cacheBefore)
    /\ get_match_type(lastLookup.code) /= "WurflMatchTypeNone"

\* C17: on an engine created with the LRU provider and capacity N the cache
\* never holds more than N entries; a lookup that inserts a new key into a
\* cache of N entries evicts exactly one entry, the least recently accessed
\* one (never the entry the lookup before found or inserted, when N > 1); a lookup
\* that hits the cache evicts nothing, and neither does a lookup that
\* inserts nothing.
C17_LruBound ==
    LruWithCap =>
        LET N == ParseCap(creation.cache_extra_config.v)
            before == CachedKeys(cacheBefore)
            after == CachedKeys(cache)
        IN  /\ Len(cache) <= N
            /\ Cardinality(after) = Len(cache)
            /\ LastHit =>
                  /\ after = before
                  /\ get_match_type(lastLookup.code) = "WurflMatchTypeCached"
            /\ ( LastInserted /\ Len(cacheBefore) < N ) =>
                  after = before \cup { lastLookup.key }
            /\ ( LastInserted /\ Len(cacheBefore) = N ) =>
                  /\ before \ after = { cacheBefore[1].key }
                  /\ after = ( before \ { cacheBefore[1].key } ) \cup { lastLookup.key }
                  /\ ( /\ N > 1
                       /\ prevLookup.out = "Ok"
                       /\ get_match_type(prevLookup.code) /= "WurflMatchTypeNone" )
                        => prevLookup.key \in after
            /\ ( ~LastHit /\ ~LastInserted ) => cache = cacheBefore

\* C17's case: a cache of N > 1 entries took a new key and lost its least
\* recently accessed entry.
C17_Witness ==
    /\ LruWithCap
    /\ Len(cacheBefore) = ParseCap(creation.cache_extra_config.v)
    /\ Len(cacheBefore) > 1
    /\ LastInserted
    /\ Len(cache) = Len(cacheBefore)
    /\ cacheBefore[1].key \notin CachedKeys(cache)

(***************************************************************************)
(* Claims about the native resources and call order of Wurfl::new, checked *)
(* under SpecNew.                                                          *)
(***************************************************************************)
CountFn(calls, f) == Cardinality({ i \in 1..Len(calls) : calls[i].fn = f })

\* The enumerator was created: the call was issued and did not return null.
EnumeratorCreated ==
    /\ Issued(newRes.calls, "wurfl_get_important_header_enumerator")
    /\ newArgs.o.fail /= "enum"

\* C18 as claimed: when Wurfl::new returns Err after wurfl_create returned a
\* handle, wurfl_destroy was called on the handle exactly once; and an
\* enumerator that was created was destroyed exactly once.
C18_HandleReleasedOnError ==
    newArgs.called =>
        /\ ( newRes.out = "Err" /\ newRes.handle = "live" ) =>
              CountFn(newRes.calls, "wurfl_destroy") = 1
        /\ EnumeratorCreated =>
              CountFn(newRes.calls, "wurfl_important_header_enumerator_destroy") = 1

\* The part of C18 the code keeps: an enumerator that was created is
\* destroyed exactly once, and the handle of a returned engine is not
\* destroyed by the constructor.
C18_EnumeratorReleased ==
    newArgs.called =>
        /\ EnumeratorCreated =>
              CountFn(newRes.calls, "wurfl_important_header_enumerator_destroy") = 1
        /\ newRes.out = "Ok" => CountFn(newRes.calls, "wurfl_destroy") = 0

\* The string arguments of the calls of f, in the order of the calls.
ArgsOf(calls, f) ==
    LET picked == SelectSeq(calls, LAMBDA call : call.fn = f)
    IN  [i \in 1..Len(picked) |-> picked[i].arg]

Given(opt) == IF opt.some THEN opt.v ELSE << >>

IsPrefix(a, b) == Len(a) <= Len(b) /\ \A i \in 1..Len(a) : a[i] = b[i]

\* C19: the native calls of Wurfl::new follow the order wurfl_create,
\* wurfl_set_root, wurfl_set_cache_provider, wurfl_add_patch for each patch
\* in slice order, wurfl_add_requested_capability for each filter name in
\* slice order, wurfl_load, the header enumeration; wurfl_load is called at
\* most once, only after every patch and every filter name was registered
\* with success, and no patch or filter is registered after it.
C19_NativeCallOrder ==
    newArgs.called =>
        LET calls == newRes.calls
            patched == ArgsOf(calls, "wurfl_add_patch")
            filtered == ArgsOf(calls, "wurfl_add_requested_capability")
        IN  /\ \A i, j \in 1..Len(calls) :
                  i < j => StepRank(calls[i].fn) <= StepRank(calls[j].fn)
            /\ \A f \in { "wurfl_create", "wurfl_set_root", "wurfl_set_cache_provider",
                          "wurfl_load", "wurfl_get_important_header_enumerator" } :
                  CountFn(calls, f) <= 1
            /\ IsPrefix(patched, Given(newArgs.patches))
            /\ IsPrefix(filtered, Given(newArgs.cap_filter))
            /\ Issued(calls, "wurfl_add_requested_capability") =>
                  patched = Given(newArgs.patches)
            /\ Issued(calls, "wurfl_load") =>
                  /\ patched = Given(newArgs.patches)
                  /\ filtered = Given(newArgs.cap_filter)
                  /\ newRes.lastErr \notin { EngineMsg("wurfl_add_patch"),
                                              EngineMsg("wurfl_add_requested_capability") }
                  /\ Issued(calls, "wurfl_set_root")
            /\ newRes.out = "Ok" =>
                  /\ CountFn(calls, "wurfl_load") = 1
                  /\ Issued(calls, "wurfl_get_important_header_enumerator")

\* C19's case: a construction with the LRU provider, two patches and two
\* filter names that went through to the header enumeration.
C19_Witness ==
    /\ newArgs.called
    /\ newRes.out = "Ok"
    /\ Issued(newRes.calls, "wurfl_set_cache_provider")
    /\ CountFn(newRes.calls, "wurfl_add_patch") = 2
    /\ CountFn(newRes.calls, "wurfl_add_requested_capability") = 2
    /\ newArgs.patches.v[1] /= newArgs.patches.v[2]

(***************************************************************************)
(* Claims about the important-header map of the struct, checked under      *)
(* Spec.                                                                   *)
(***************************************************************************)
\* The keys of the map are the lowercased names of the vector Wurfl::new
\* filled from the enumeration, and each key maps to one of those names, of
\* which it is the lowercase form.
HeaderMapKeysExact ==
    LET names == wurfl.important_header_names
        hmap == wurfl.important_header_cstring_names
    IN  /\ DOMAIN hmap = { to_lowercase(names[i]) : i \in 1..Len(names) }
        /\ \A k \in DOMAIN hmap :
              /\ to_lowercase(hmap[k]) = k
              /\ \E i \in 1..Len(names) : names[i] = hmap[k]

\* C21: the important-header map is the one Wurfl::new computed, its keys
\* are the lowercased names the engine enumerated, and no operation on the
\* engine or on its devices (lookup, enumeration, capability query, updater
\* call, drop) adds, removes or changes an entry.
C21_HeaderMapFrozen ==
    /\ [](wurfl.valid /\ HeaderMapKeysExact)
    /\ [][wurfl' = wurfl]_vars

\* C21's case: an updater run on an engine whose map has two entries, after
\* a lookup produced a device.
C21_Witness ==
    /\ owned
    /\ lastCall.fn = "wurfl_updater_runonce"
    /\ Cardinality(DOMAIN wurfl.important_header_cstring_names) = 2
    /\ \E d \in 1..MaxDevices : devices[d] = "live"

(***************************************************************************)
(* SpecErr: several threads call fallible methods on one shared Wurfl      *)
(* (wurfl.rs:629-632 make it Send and Sync).  A failing method is two      *)
(* native calls with nothing held between them: the call that fails, and   *)
(* wurfl_get_error_message on the same handle (wurfl.rs:243-247).  The     *)
(* engine keeps its last error message per handle, the only argument of    *)
(* wurfl_get_error_message; this is modelled from the engine's interface.  *)
(***************************************************************************)
\* The fallible calls the threads make, with the argument each is given.
\* wurfl.rs:319, 455, 534, 589.
ErrCalls ==
    { [fn |-> "wurfl_lookup_useragent", arg |-> "ua"],
      [fn |-> "wurfl_get_device", arg |-> "id"],
      [fn |-> "wurfl_updater_set_data_url", arg |-> "url"],
      [fn |-> "wurfl_updater_runonce", arg |-> ""] }

\* The message the engine records for a failure of call c.
wurfl_error_of(c) == EngineMsg(c.fn \o "(" \o c.arg \o ")")

InitErr ==
    /\ IdleNew
    /\ IdleHdr
    /\ IdleCache
    /\ IdleDb
    /\ IdleDev
    /\ IdleUpd
    /\ wurfl \in BuiltWurfls
    /\ owned = TRUE
    /\ engine = "live"
    /\ destroys = 0
    /\ devices = [d \in 1..MaxDevices |-> "none"]
    /\ lastCall = NoNativeCall
    /\ lastError = NoMsg
    /\ threads = [t \in Threads |-> NoErrCall]

\* wurfl.rs:319-320, 455-456, 534-535, 589: the native call of thread t
\* fails (null device handle, or a status other than WURFL_OK) and the
\* engine records its message.
NativeCallFails(t) ==
    /\ owned
    /\ threads[t].pc = "idle"
    /\ \E c \in ErrCalls :
          /\ lastError' = wurfl_error_of(c)
          /\ threads' = [threads EXCEPT ![t] =
                 [pc |-> "failed", fn |-> c.fn, arg |-> c.arg,
                  own |-> wurfl_error_of(c), ret |-> NoResult]]
          /\ lastCall' = NativeOn(c.fn, "engine", 0)
    /\ UNCHANGED << newVars, wurfl, hdrVars, owned, engine, destroys, devices,
                    cacheVars, dbVars, devVars, updVars >>

\* wurfl.rs:324-328, 460-464, 539, 593: the native call of thread t succeeds
\* and the method returns Ok.
NativeCallSucceeds(t) ==
    /\ owned
    /\ threads[t].pc = "idle"
    /\ \E c \in ErrCalls :
          /\ threads' = [threads EXCEPT ![t] =
                 [pc |-> "returned", fn |-> c.fn, arg |-> c.arg,
                  own |-> NoMsg, ret |-> OkResult]]
          /\ lastCall' = NativeOn(c.fn, "engine", 0)
    /\ UNCHANGED << newVars, wurfl, hdrVars, owned, engine, destroys, devices,
                    cacheVars, dbVars, devVars, updVars, lastError >>

\* wurfl.rs:321-322, 457-458, 536-537, 590-591: thread t, whose native call
\* failed, reads the engine's last error message and returns it in the
\* WurflError.
ReadErrorMessage(t) ==
    /\ threads[t].pc = "failed"
    /\ threads' = [threads EXCEPT ![t] =
           [@ EXCEPT !.pc = "returned",
                     !.ret = ErrResult(get_error_message([lastErr |-> lastError]))]]
    /\ lastCall' = NativeOn("wurfl_get_error_message", "engine", 0)
    /\ UNCHANGED << newVars, wurfl, hdrVars, owned, engine, destroys, devices,
                    cacheVars, dbVars, devVars, updVars, lastError >>

\* The caller of thread t takes the result; the thread may call again.
TakeResult(t) ==
    /\ threads[t].pc = "returned"
    /\ threads' = [threads EXCEPT ![t] = NoErrCall]
    /\ UNCHANGED << newVars, wurfl, hdrVars, lifeVars, cacheVars, dbVars, devVars,
                    updVars, lastError >>

NextErr ==
    \E t \in Threads :
        \/ NativeCallFails(t)
        \/ NativeCallSucceeds(t)
        \/ ReadErrorMessage(t)
        \/ TakeResult(t)

SpecErr == InitErr /\ [][NextErr]_vars

(***************************************************************************)
(* Claim about the error message of concurrent failing calls, checked      *)
(* under SpecErr.                                                          *)
(***************************************************************************)
\* C22: the message in the WurflError a failing call returns is the message
\* of that call's own failure, whatever other threads do on the shared
\* engine between the failing native call and the read of the message.
C22_OwnErrorMessage ==
    \A t \in Threads :
        (threads[t].pc = "returned" /\ threads[t].ret.kind = "Err")
            => threads[t].ret.msg = threads[t].own

====
